---- MODULE Spec2Model ----
(***************************************************************************)
(* Model of the Events registry contract (contracts/events/src/lib.rs).    *)
(*                                                                         *)
(* The contract keeps two entries in the host's persistent storage:        *)
(*   "events"        : Map<u32, Event>                                     *)
(*   "event_counter" : u32                                                 *)
(* Every entry point loads what it needs (with a default when the entry    *)
(* is absent), works on the loaded copy and writes entries back.  The host *)
(* runs one call at a time, so each call is one atomic step.               *)
(***************************************************************************)
EXTENDS Integers, Sequences, FiniteSets, TLC

\* ------------------------------------------------------------------ bounds

\* Number of create_event calls explored.
MaxCreates == 3

\* The largest value of the unsigned integer type of event_id, event_counter
\* and index.  The contract's type is u32, whose largest value 4294967295 is
\* beyond the integers the model checker computes with, so the type is
\* modelled at 16 bits.  The contract only adds 1 to such values and compares
\* them, so what happens at the largest value does not depend on the width.
U32_MAX == 65535

\* ------------------------------------------------------------- input sets

\* Argument tuples (name, description, start_date, end_date) of create_event
\* and update_event: the ones the contract's tests use.  The third one has
\* end_date < start_date; the contract validates nothing.
EventArgs ==
    { [name |-> "Event1", description |-> "Description1",
       start_date |-> 123456, end_date |-> 789012],
      [name |-> "Event2", description |-> "Description2",
       start_date |-> 234567, end_date |-> 890123],
      [name |-> "UpdatedEvent", description |-> "UpdatedDesc",
       start_date |-> 654321, end_date |-> 210987] }

\* enum Status
Status == {"Active", "Completed"}

\* event_id arguments tried: 0, every id that can have been issued from an
\* empty registry, one more, and the largest value of the type.
EventIds == (0..(MaxCreates + 1)) \cup {U32_MAX}

\* index arguments tried by get_event_by_index.
Indices == (0..(MaxCreates + 1)) \cup {U32_MAX - 1, U32_MAX}

\* ------------------------------------------------------------ Option, unit

None == <<>>
Some(x) == <<x>>
Unit == <<>>

\* What a read-only entry point gives when it panics instead of returning.
Trap == <<"panic", "attempt to add with overflow">>

\* ----------------------------------------------------------- build profile

\* Whether the contract is built with overflow checks (debug builds, test
\* runs and release profiles with overflow-checks = true) or without (the
\* default release profile).  Fixed for the life of the contract.
VARIABLE overflow_checks

\* x + 1 on the unsigned type: with overflow checks the addition panics at
\* the largest value (ok = FALSE), without them it wraps around to 0.
AddOne(x) ==
    IF x < U32_MAX THEN [ok |-> TRUE, val |-> x + 1]
    ELSE IF overflow_checks THEN [ok |-> FALSE, val |-> 0]
    ELSE [ok |-> TRUE, val |-> 0]

\* ------------------------------------------------------ persistent storage

\* The storage is a function from the keys that have been set to their values.
EmptyStorage == [k \in {} |-> 0]

\* Map::new(&env)
EmptyMap == [k \in {} |-> 0]

\* env.storage().persistent().set(key, val)
StorageSet(env, key, val) ==
    [k \in (DOMAIN env) \cup {key} |-> IF k = key THEN val ELSE env[k]]

\* env.storage().persistent().get("events").unwrap_or(Map::new(&env))
LoadEvents(env) ==
    IF "events" \in DOMAIN env THEN env["events"] ELSE EmptyMap

\* env.storage().persistent().get("event_counter").unwrap_or(0)
LoadCounter(env) ==
    IF "event_counter" \in DOMAIN env THEN env["event_counter"] ELSE 0

\* ---------------------------------------------------------- Map<u32, Event>

\* Map::get
MapGet(events, key) ==
    IF key \in DOMAIN events THEN Some(events[key]) ELSE None

\* Map::set: insert or overwrite
MapSet(events, key, val) ==
    [k \in (DOMAIN events) \cup {key} |-> IF k = key THEN val ELSE events[k]]

\* Map::remove: removes the key if present
MapRemove(events, key) ==
    [k \in (DOMAIN events) \ {key} |-> events[k]]

\* The keys of a map in ascending order (the host's Map is ordered by key).
RECURSIVE SortedKeys(_)
SortedKeys(S) ==
    IF S = {} THEN <<>>
    ELSE LET m == CHOOSE x \in S : \A y \in S : x <= y
         IN  <<m>> \o SortedKeys(S \ {m})

\* Map::values
MapValues(events) ==
    LET ks == SortedKeys(DOMAIN events)
    IN  [i \in 1..Len(ks) |-> events[ks[i]]]

\* ------------------------------------------------------------ entry points
\* Each entry point is an operator from the storage it is called on (env) and
\* its arguments to the value it returns; a mutating entry point gives a record
\* of the storage it leaves (env), the value it returns (ret) and whether it
\* returned normally (ok) rather than trapping.

\* Variant: the id is the counter as loaded, without the + 1.
NextCounter_NoIncrement(env) == [ok |-> TRUE, val |-> LoadCounter(env)]

\* Variant: the id is taken from the number of live records.
NextCounter_FromLen(env) == AddOne(Cardinality(DOMAIN LoadEvents(env)))

\* let event_counter: u32 = ... .unwrap_or(0) + 1;
NextCounter(env) == AddOne(LoadCounter(env))

\* Variant: start_date and end_date exchanged in the struct literal.
NewEvent_DatesSwapped(event_counter, name, description, start_date, end_date) ==
    [event_id |-> event_counter, name |-> name, description |-> description,
     start_date |-> end_date, end_date |-> start_date, status |-> "Active"]

\* Variant: the new record starts as Completed.
NewEvent_StartsCompleted(event_counter, name, description, start_date, end_date) ==
    [event_id |-> event_counter, name |-> name, description |-> description,
     start_date |-> start_date, end_date |-> end_date, status |-> "Completed"]

\* let new_event = Event { event_id: event_counter, name, ..., status: Active };
NewEvent(event_counter, name, description, start_date, end_date) ==
    [event_id |-> event_counter, name |-> name, description |-> description,
     start_date |-> start_date, end_date |-> end_date, status |-> "Active"]

\* Variant: the new counter is never written back.
create_event_CounterNotSaved(env, name, description, start_date, end_date) ==
    LET events == LoadEvents(env)
        event_counter == LoadCounter(env) + 1
        new_event == [event_id |-> event_counter, name |-> name,
                      description |-> description, start_date |-> start_date,
                      end_date |-> end_date, status |-> "Active"]
        events1 == MapSet(events, event_counter, new_event)
    IN  [env |-> StorageSet(env, "events", events1), ret |-> event_counter,
         ok |-> TRUE]

\* Variant: the stored counter is unwrapped without a default, so the call
\* panics while no counter has been persisted.
create_event_UnwrapsCounter(env, name, description, start_date, end_date) ==
    LET events == LoadEvents(env)
        sum == AddOne(LoadCounter(env))
        event_counter == sum.val
        new_event == [event_id |-> event_counter, name |-> name,
                      description |-> description, start_date |-> start_date,
                      end_date |-> end_date, status |-> "Active"]
        events1 == MapSet(events, event_counter, new_event)
        env1 == StorageSet(env, "events", events1)
        env2 == StorageSet(env1, "event_counter", event_counter)
    IN  IF "event_counter" \in DOMAIN env /\ sum.ok
        THEN [env |-> env2, ret |-> event_counter, ok |-> TRUE]
        ELSE [env |-> env, ret |-> None, ok |-> FALSE]

\* A panic on line 30 ends the call before anything is written.
create_event(env, name, description, start_date, end_date) ==
    LET events == LoadEvents(env)
        sum == NextCounter(env)
        event_counter == sum.val
        new_event == NewEvent(event_counter, name, description, start_date, end_date)
        events1 == MapSet(events, event_counter, new_event)
        env1 == StorageSet(env, "events", events1)
        env2 == StorageSet(env1, "event_counter", event_counter)
    IN  IF sum.ok
        THEN [env |-> env2, ret |-> event_counter, ok |-> TRUE]
        ELSE [env |-> env, ret |-> None, ok |-> FALSE]

read_event(env, event_id) ==
    MapGet(LoadEvents(env), event_id)

\* Variant: the record is rebuilt from the arguments, event_id left at 0.
AssignFields_ResetsId(event, name, description, start_date, end_date, status) ==
    [event_id |-> 0, name |-> name, description |-> description,
     start_date |-> start_date, end_date |-> end_date, status |-> status]

\* Variant: the status argument is not assigned.
AssignFields_StatusKept(event, name, description, start_date, end_date, status) ==
    [event EXCEPT !.name = name, !.description = description,
                  !.start_date = start_date, !.end_date = end_date]

\* event.name = name; ...; event.status = status;
AssignFields(event, name, description, start_date, end_date, status) ==
    [event EXCEPT !.name = name, !.description = description,
                  !.start_date = start_date, !.end_date = end_date,
                  !.status = status]

\* Variant: an absent id is inserted (upsert).
update_event_Upsert(env, event_id, name, description, start_date, end_date, status) ==
    LET events == LoadEvents(env)
        event == [event_id |-> event_id, name |-> name, description |-> description,
                  start_date |-> start_date, end_date |-> end_date,
                  status |-> status]
        events1 == MapSet(events, event_id, event)
    IN  [env |-> StorageSet(env, "events", events1), ret |-> Unit, ok |-> TRUE]

update_event(env, event_id, name, description, start_date, end_date, status) ==
    LET events == LoadEvents(env)
        found == MapGet(events, event_id)
    IN  IF found # None
        THEN LET event == AssignFields(found[1], name, description,
                                       start_date, end_date, status)
                 events1 == MapSet(events, event_id, event)
             IN  [env |-> StorageSet(env, "events", events1), ret |-> Unit,
                  ok |-> TRUE]
        ELSE [env |-> env, ret |-> Unit, ok |-> TRUE]

\* Variant: the counter is decremented when a record is removed.
delete_event_DecrementsCounter(env, event_id) ==
    LET events == LoadEvents(env)
        events1 == MapRemove(events, event_id)
        env1 == StorageSet(env, "events", events1)
    IN  IF event_id \in DOMAIN events
        THEN [env |-> StorageSet(env1, "event_counter", LoadCounter(env) - 1),
              ret |-> Unit, ok |-> TRUE]
        ELSE [env |-> env1, ret |-> Unit, ok |-> TRUE]

\* Variant: the map is not written back after the removal.
delete_event_NotSaved(env, event_id) ==
    [env |-> env, ret |-> Unit, ok |-> TRUE]

\* Variant: the result of Map::remove is unwrapped, so an absent id traps.
delete_event_TrapsWhenAbsent(env, event_id) ==
    LET events == LoadEvents(env)
        events1 == MapRemove(events, event_id)
    IN  IF event_id \in DOMAIN events
        THEN [env |-> StorageSet(env, "events", events1), ret |-> Unit,
              ok |-> TRUE]
        ELSE [env |-> env, ret |-> Unit, ok |-> FALSE]

\* Variant: the id is taken for a position, and the key after it is removed.
delete_event_OffByOne(env, event_id) ==
    LET events == LoadEvents(env)
        events1 == MapRemove(events, event_id + 1)
    IN  [env |-> StorageSet(env, "events", events1), ret |-> Unit, ok |-> TRUE]

delete_event(env, event_id) ==
    LET events == LoadEvents(env)
        events1 == MapRemove(events, event_id)
    IN  [env |-> StorageSet(env, "events", events1), ret |-> Unit, ok |-> TRUE]

list_events(env) ==
    MapValues(LoadEvents(env))

\* Variant: the count is the number of records now in the map.
get_event_count_LiveRecords(env) ==
    Cardinality(DOMAIN LoadEvents(env))

get_event_count(env) ==
    LoadCounter(env)

\* Variant: the index is an ordinal over the records now in the map.
get_event_by_index_Ordinal(env, index) ==
    LET list == MapValues(LoadEvents(env))
    IN  IF index < Len(list) THEN Some(list[index + 1]) ELSE None

get_event_by_index(env, index) ==
    IF index < LoadCounter(env)
    THEN LET sum == AddOne(index)
         IN  IF sum.ok THEN MapGet(LoadEvents(env), sum.val) ELSE Trap
    ELSE None

\* ------------------------------------------------------------------- state

VARIABLES
    storage,   \* the contract's persistent storage
    before,    \* the storage as it was when the last call started
    last,      \* the last call: entry point, arguments, returned value, ok
    creates,   \* number of create_event calls made since the initial state
    retired,   \* ids that some delete_event call removed from the map
    removals,  \* number of delete_event calls that removed a present id
    frames     \* the local variables of create_event calls that are under way

vars == <<overflow_checks, storage, before, last, creates, retired, removals,
          frames>>

\* No call is under way between the steps of Spec: the host runs each call
\* to completion.
NoFrames == [c \in {} |-> 0]

Init ==
    /\ overflow_checks \in BOOLEAN
    /\ frames = NoFrames
    /\ removals = 0
    /\ storage = EmptyStorage
    /\ before = EmptyStorage
    /\ last = [op |-> "none"]
    /\ creates = 0
    /\ retired = {}

CreateEvent(a) ==
    /\ creates < MaxCreates
    /\ LET r == create_event(storage, a.name, a.description, a.start_date, a.end_date)
       IN  /\ storage' = r.env
           /\ last' = [op |-> "create_event", args |-> a, ret |-> r.ret,
                       ok |-> r.ok]
    /\ before' = storage
    /\ creates' = creates + 1
    /\ UNCHANGED <<frames, overflow_checks, retired, removals>>

ReadEvent(id) ==
    /\ last' = [op |-> "read_event", event_id |-> id, ret |-> read_event(storage, id)]
    /\ before' = storage
    /\ UNCHANGED <<frames, overflow_checks, storage, creates, retired, removals>>

UpdateEvent(id, a, st) ==
    /\ LET r == update_event(storage, id, a.name, a.description,
                             a.start_date, a.end_date, st)
       IN  /\ storage' = r.env
           /\ last' = [op |-> "update_event", event_id |-> id, args |-> a,
                       status |-> st, ret |-> r.ret, ok |-> r.ok]
    /\ before' = storage
    /\ UNCHANGED <<frames, overflow_checks, creates, retired, removals>>

DeleteEvent(id) ==
    /\ LET r == delete_event(storage, id)
       IN  /\ storage' = r.env
           /\ last' = [op |-> "delete_event", event_id |-> id, ret |-> r.ret,
                       ok |-> r.ok]
    /\ before' = storage
    /\ retired' = IF id \in DOMAIN LoadEvents(storage)
                  THEN retired \cup {id} ELSE retired
    /\ removals' = IF id \in DOMAIN LoadEvents(storage)
                   THEN removals + 1 ELSE removals
    /\ UNCHANGED <<frames, overflow_checks, creates>>

ListEvents ==
    /\ last' = [op |-> "list_events", ret |-> list_events(storage)]
    /\ before' = storage
    /\ UNCHANGED <<frames, overflow_checks, storage, creates, retired, removals>>

\* Variant: the default of an absent counter is written back when it is read.
GetEventCount_PersistsDefault ==
    /\ last' = [op |-> "get_event_count", ret |-> get_event_count(storage)]
    /\ storage' = StorageSet(storage, "event_counter", LoadCounter(storage))
    /\ before' = storage
    /\ UNCHANGED <<frames, overflow_checks, creates, retired, removals>>

GetEventCount ==
    /\ last' = [op |-> "get_event_count", ret |-> get_event_count(storage)]
    /\ before' = storage
    /\ UNCHANGED <<frames, overflow_checks, storage, creates, retired, removals>>

GetEventByIndex(index) ==
    /\ last' = [op |-> "get_event_by_index", index |-> index,
                ret |-> get_event_by_index(storage, index)]
    /\ before' = storage
    /\ UNCHANGED <<frames, overflow_checks, storage, creates, retired, removals>>

Next ==
    \/ \E a \in EventArgs : CreateEvent(a)
    \/ \E id \in EventIds : ReadEvent(id)
    \/ \E id \in EventIds, a \in EventArgs, st \in Status : UpdateEvent(id, a, st)
    \/ \E id \in EventIds : DeleteEvent(id)
    \/ ListEvents
    \/ GetEventCount
    \/ \E index \in Indices : GetEventByIndex(index)

Spec == Init /\ [][Next]_vars

\* ----------------------------------------------- at the end of the id range

\* A registry one create_event away from the largest counter value: the
\* record with id 1 is live, every other id issued has been deleted.
BoundaryStorage ==
    LET events == MapSet(EmptyMap, 1,
                         NewEvent(1, "Event1", "Description1", 123456, 789012))
    IN  StorageSet(StorageSet(EmptyStorage, "events", events),
                   "event_counter", U32_MAX - 1)

InitBoundary ==
    /\ overflow_checks \in BOOLEAN
    /\ frames = NoFrames
    /\ storage = BoundaryStorage
    /\ before = BoundaryStorage
    /\ last = [op |-> "none"]
    /\ creates = 0
    /\ retired = {}
    /\ removals = 0

SpecBoundary == InitBoundary /\ [][Next]_vars

\* ------------------------------------- create_event without the host's guard
\* Two create_event calls whose storage reads and writes interleave, as they
\* could outside a host that runs one call at a time.  Each call goes through
\* the storage accesses of create_event in program order:
\*   line 29 get "events", line 30 get "event_counter",
\*   line 42 set "events", line 43 set "event_counter", line 45 return.

Callers == {1, 2}

\* The registries the two calls start on: empty, or holding one record.
InterleavedStart ==
    { EmptyStorage,
      create_event(EmptyStorage, "Event1", "Description1", 123456, 789012).env }

InitInterleaved ==
    /\ overflow_checks \in BOOLEAN
    /\ storage \in InterleavedStart
    /\ before = storage
    /\ last = [op |-> "none"]
    /\ creates = 0
    /\ retired = {}
    /\ removals = 0
    /\ \E a1 \in EventArgs, a2 \in EventArgs :
           frames = [c \in Callers |->
                        [pc |-> "line29", args |-> IF c = 1 THEN a1 ELSE a2,
                         events |-> EmptyMap, event_counter |-> 0]]

\* line 29: let mut events = storage.get("events").unwrap_or(Map::new(&env));
LoadEventsStep(c) ==
    /\ frames[c].pc = "line29"
    /\ frames' = [frames EXCEPT ![c].pc = "line30",
                                ![c].events = LoadEvents(storage)]
    /\ UNCHANGED <<overflow_checks, storage, before, last, creates, retired, removals>>

\* line 30: let event_counter = storage.get("event_counter").unwrap_or(0) + 1;
LoadCounterStep(c) ==
    /\ frames[c].pc = "line30"
    /\ LET sum == NextCounter(storage)
       IN  frames' = IF sum.ok
                     THEN [frames EXCEPT ![c].pc = "line42",
                                         ![c].event_counter = sum.val]
                     ELSE [frames EXCEPT ![c].pc = "panicked"]
    /\ UNCHANGED <<overflow_checks, storage, before, last, creates, retired, removals>>

\* lines 32-42: events.set(event_counter, new_event); storage.set("events", &events);
SaveEventsStep(c) ==
    /\ frames[c].pc = "line42"
    /\ LET f == frames[c]
           new_event == NewEvent(f.event_counter, f.args.name, f.args.description,
                                 f.args.start_date, f.args.end_date)
           events1 == MapSet(f.events, f.event_counter, new_event)
       IN  /\ storage' = StorageSet(storage, "events", events1)
           /\ frames' = [frames EXCEPT ![c].pc = "line43", ![c].events = events1]
    /\ UNCHANGED <<overflow_checks, before, last, creates, retired, removals>>

\* Variant: the counter is loaded again and incremented when it is written.
SaveCounterStep_Rereads(c) ==
    /\ frames[c].pc = "line43"
    /\ storage' = StorageSet(storage, "event_counter", LoadCounter(storage) + 1)
    /\ frames' = [frames EXCEPT ![c].pc = "returned"]
    /\ UNCHANGED <<overflow_checks, before, last, creates, retired, removals>>

\* lines 43-45: storage.set("event_counter", &event_counter); event_counter
SaveCounterStep(c) ==
    /\ frames[c].pc = "line43"
    /\ storage' = StorageSet(storage, "event_counter", frames[c].event_counter)
    /\ frames' = [frames EXCEPT ![c].pc = "returned"]
    /\ UNCHANGED <<overflow_checks, before, last, creates, retired, removals>>

NextInterleaved ==
    \/ \E c \in Callers : LoadEventsStep(c)
    \/ \E c \in Callers : LoadCounterStep(c)
    \/ \E c \in Callers : SaveEventsStep(c)
    \/ \E c \in Callers : SaveCounterStep(c)

SpecInterleaved == InitInterleaved /\ [][NextInterleaved]_vars

\* ------------------------------------------------------------------ claims

ReadOnlyOps == {"read_event", "list_events", "get_event_count", "get_event_by_index"}

\* The event_id of every element of a list_events() result.
ListedIds(list) == {list[i].event_id : i \in 1..Len(list)}

\* C1: starting from empty storage, the k-th create_event call returns k,
\* whatever other calls are made between the creates.
C1_KthCreateReturnsK ==
    last.op = "create_event" => last.ret = creates

\* C1 witness: the third create returns after a record was deleted and another
\* was updated to Completed.
C1_Witness ==
    /\ last.op = "create_event"
    /\ creates = 3
    /\ last.ret = 3
    /\ retired # {}
    /\ \E k \in DOMAIN LoadEvents(storage) : LoadEvents(storage)[k].status = "Completed"

\* C2: an id removed by delete_event stays retired: read_event(id) is None in
\* every later state and no later create_event returns it.
C2_DeletedIdsRetired ==
    \A id \in retired :
        /\ read_event(storage, id) = None
        /\ (last.op = "create_event" => last.ret # id)

\* C2 witness: a create_event returns after two ids were removed, one of them
\* the highest id issued at the time.
C2_Witness ==
    /\ last.op = "create_event"
    /\ retired = {1, 2}
    /\ last.ret = 3
    /\ DOMAIN LoadEvents(storage) = {3}

\* C3: the persisted counter never decreases: create_event raises it by
\* exactly 1 and every other entry point leaves the counter entry as it was.
C3_CounterMonotone ==
    /\ LoadCounter(storage) >= LoadCounter(before)
    /\ (last.op = "create_event" /\ last.ok)
          => LoadCounter(storage) = LoadCounter(before) + 1
    /\ last.op \in {"update_event", "delete_event"} \cup ReadOnlyOps
          => /\ ("event_counter" \in DOMAIN storage) = ("event_counter" \in DOMAIN before)
             /\ LoadCounter(storage) = LoadCounter(before)

\* C3 witness: a delete_event that removed a record left the counter at 2.
C3_Witness ==
    /\ last.op = "delete_event"
    /\ last.event_id \in DOMAIN LoadEvents(before)
    /\ LoadCounter(before) = 2
    /\ LoadCounter(storage) = 2

\* C4: every key of the persisted events map is at least 1 and at most the
\* persisted counter.
C4_KeysInRange ==
    \A k \in DOMAIN LoadEvents(storage) : 1 <= k /\ k <= LoadCounter(storage)

\* C4 witness: a map with a gap, whose highest key equals the counter.
C4_Witness ==
    /\ DOMAIN LoadEvents(storage) = {1, 3}
    /\ LoadCounter(storage) = 3

\* C5: every record stored under key k has event_id = k, and a record that
\* stays in the map across a call keeps its event_id.
C5_EventIdIsKey ==
    /\ \A k \in DOMAIN LoadEvents(storage) : LoadEvents(storage)[k].event_id = k
    /\ \A k \in (DOMAIN LoadEvents(storage)) \cap (DOMAIN LoadEvents(before)) :
           LoadEvents(storage)[k].event_id = LoadEvents(before)[k].event_id

\* C5 witness: update_event has just rewritten the record with id 2.
C5_Witness ==
    /\ last.op = "update_event"
    /\ last.event_id = 2
    /\ 2 \in DOMAIN LoadEvents(before)
    /\ LoadEvents(storage)[2] # LoadEvents(before)[2]
    /\ LoadEvents(storage)[2].event_id = 2

\* The record create_event(n, d, s, e) is to store under id.
ExpectedCreated(id, a) ==
    [event_id |-> id, name |-> a.name, description |-> a.description,
     start_date |-> a.start_date, end_date |-> a.end_date, status |-> "Active"]

\* The record update_event(id, n2, d2, s2, e2, st) is to leave under id.
ExpectedUpdated(id, a, st) ==
    [event_id |-> id, name |-> a.name, description |-> a.description,
     start_date |-> a.start_date, end_date |-> a.end_date, status |-> st]

\* C6: whatever the arguments and the state, when create_event(n, d, s, e)
\* returns id, read_event(id) then gives Some(Event{id, n, d, s, e, Active}).
C6_CreateReadRoundTrip ==
    last.op = "create_event"
        => read_event(storage, last.ret) = Some(ExpectedCreated(last.ret, last.args))

\* C6 witness: a create_event with end_date before start_date returned id 3
\* in a registry where an earlier id had been deleted.
C6_Witness ==
    /\ last.op = "create_event"
    /\ last.args.end_date < last.args.start_date
    /\ last.ret = 3
    /\ retired # {}
    /\ read_event(storage, 3) # None

\* C7: after update_event(id, n2, d2, s2, e2, st) on an id present in the map,
\* read_event(id) gives Some(Event{id, n2, d2, s2, e2, st}).
C7_UpdateReplacesFields ==
    (last.op = "update_event" /\ last.event_id \in DOMAIN LoadEvents(before))
        => read_event(storage, last.event_id)
               = Some(ExpectedUpdated(last.event_id, last.args, last.status))

\* C7 witness: update_event set an Active record with other field values to
\* Completed.
C7_Witness ==
    /\ last.op = "update_event"
    /\ last.event_id \in DOMAIN LoadEvents(before)
    /\ last.status = "Completed"
    /\ LoadEvents(before)[last.event_id].status = "Active"
    /\ LoadEvents(before)[last.event_id].name # last.args.name
    /\ LoadEvents(storage)[last.event_id].name = last.args.name

\* C8: update_event on an id absent from the map returns normally and leaves
\* the persisted state as it was, so get_event_count(), list_events() and
\* read_event(id) (None) are as before the call.
C8_UpdateAbsentIsNoOp ==
    (last.op = "update_event" /\ last.event_id \notin DOMAIN LoadEvents(before))
        => /\ last.ok
           /\ storage = before
           /\ get_event_count(storage) = get_event_count(before)
           /\ list_events(storage) = list_events(before)
           /\ read_event(storage, last.event_id) = None

\* C8 witness: update_event was called on an id that had been deleted, while
\* other records were live.
C8_Witness ==
    /\ last.op = "update_event"
    /\ last.event_id \in retired
    /\ last.event_id \notin DOMAIN LoadEvents(before)
    /\ DOMAIN LoadEvents(storage) # {}

\* C9: after delete_event(id) on a present id, read_event(id) is None, no
\* element of list_events() has that event_id, and get_event_count() is what
\* it was before the call.
C9_DeleteRemovesButKeepsCount ==
    (last.op = "delete_event" /\ last.event_id \in DOMAIN LoadEvents(before))
        => /\ read_event(storage, last.event_id) = None
           /\ last.event_id \notin ListedIds(list_events(storage))
           /\ get_event_count(storage) = get_event_count(before)

\* C9 witness: delete_event(1) removed record 1 of three; two are still
\* listed and the count is 3.
C9_Witness ==
    /\ last.op = "delete_event"
    /\ last.event_id = 1
    /\ 1 \in DOMAIN LoadEvents(before)
    /\ Len(list_events(storage)) = 2
    /\ get_event_count(storage) = 3

\* C10: delete_event on an id absent from the map returns normally and every
\* read_event, list_events, get_event_count and get_event_by_index result is
\* as before the call; a second delete_event(id) leaves the storage the first
\* one left.
C10_DeleteAbsentIsNoOp ==
    /\ (last.op = "delete_event" /\ last.event_id \notin DOMAIN LoadEvents(before))
          => /\ last.ok
             /\ \A id \in EventIds : read_event(storage, id) = read_event(before, id)
             /\ list_events(storage) = list_events(before)
             /\ get_event_count(storage) = get_event_count(before)
             /\ \A k \in Indices :
                    get_event_by_index(storage, k) = get_event_by_index(before, k)
    /\ last.op = "delete_event"
          => LET again == delete_event(storage, last.event_id)
             IN  again.ok /\ again.env = storage

\* C10 witness: delete_event was called on an id that an earlier call had
\* already deleted, while other records were live.
C10_Witness ==
    /\ last.op = "delete_event"
    /\ last.event_id \in retired
    /\ last.event_id \notin DOMAIN LoadEvents(before)
    /\ DOMAIN LoadEvents(storage) # {}

\* C11: get_event_count() is the number of create_event calls made so far,
\* and list_events() has that many elements less the number of delete_event
\* calls that removed a present id.
C11_CountIsCreatesListIsLive ==
    /\ get_event_count(storage) = creates
    /\ Len(list_events(storage)) = get_event_count(storage) - removals
    /\ last.op = "get_event_count" => last.ret = creates
    /\ last.op = "list_events" => Len(last.ret) = creates - removals

\* C11 witness: after three creates and one removing delete, list_events()
\* returned two records while the count is 3.
C11_Witness ==
    /\ last.op = "list_events"
    /\ creates = 3
    /\ removals = 1
    /\ Len(last.ret) = 2
    /\ get_event_count(storage) = 3

\* C12: for an index k below get_event_count(), get_event_by_index(k) is
\* read_event(k + 1) (a record) when id k + 1 has not been deleted and None
\* when it has, whatever higher ids are live; for k at or above the count it
\* is None.
C12_IndexAliasesIdMinusOne ==
    \A k \in Indices :
        LET got == get_event_by_index(storage, k)
        IN  IF k < get_event_count(storage)
            THEN IF (k + 1) \in retired
                 THEN got = None
                 ELSE got # None /\ got = read_event(storage, k + 1)
            ELSE got = None

\* C12 witness: get_event_by_index(0) returned None for the deleted id 1
\* while ids 2 and 3 were live, and index 1 still gives the record with id 2.
C12_Witness ==
    /\ last.op = "get_event_by_index"
    /\ last.index = 0
    /\ last.ret = None
    /\ 1 \in retired
    /\ DOMAIN LoadEvents(storage) = {2, 3}
    /\ get_event_by_index(storage, 1) = Some(LoadEvents(storage)[2])

\* The keys present in the map both before and after the last call.
KeptKeys == (DOMAIN LoadEvents(storage)) \cap (DOMAIN LoadEvents(before))

\* C13 as stated: a record is Active when created, and a live record whose
\* status is Completed never becomes Active again.
C13_CompletedNeverReactivated ==
    /\ (last.op = "create_event" /\ last.ok)
          => LoadEvents(storage)[last.ret].status = "Active"
    /\ \A k \in KeptKeys :
           LoadEvents(before)[k].status = "Completed"
               => LoadEvents(storage)[k].status = "Completed"

\* C13 amended: a record is Active when created, and the status of a live
\* record changes only by update_event on its id, to the status argument of
\* that call, in either direction (Active to Completed, Completed to Active).
C13_StatusSetOnlyByUpdate ==
    /\ (last.op = "create_event" /\ last.ok)
          => LoadEvents(storage)[last.ret].status = "Active"
    /\ \A k \in KeptKeys :
           LoadEvents(storage)[k].status # LoadEvents(before)[k].status
               => /\ last.op = "update_event"
                  /\ last.event_id = k
                  /\ LoadEvents(storage)[k].status = last.status

\* C13 witness: update_event with status Active has made a Completed record
\* Active again.
C13_Witness ==
    /\ last.op = "update_event"
    /\ last.status = "Active"
    /\ last.event_id \in KeptKeys
    /\ LoadEvents(before)[last.event_id].status = "Completed"
    /\ LoadEvents(storage)[last.event_id].status = "Active"

\* C14: while nothing has been persisted, no call fails: get_event_count()
\* is 0, list_events() is empty, read_event and get_event_by_index give None
\* for every argument, and create_event returns 1.
C14_MissingStateIsEmpty ==
    /\ storage = EmptyStorage
          => /\ get_event_count(storage) = 0
             /\ list_events(storage) = <<>>
             /\ \A id \in EventIds : read_event(storage, id) = None
             /\ \A k \in Indices : get_event_by_index(storage, k) = None
             /\ \A a \in EventArgs :
                    LET r == create_event(storage, a.name, a.description,
                                          a.start_date, a.end_date)
                    IN  r.ok /\ r.ret = 1
    /\ before = EmptyStorage
          => /\ last.op = "create_event" => last.ok /\ last.ret = 1
             /\ last.op \in {"update_event", "delete_event"} => last.ok
             /\ last.op = "get_event_count" => last.ret = 0
             /\ last.op = "list_events" => last.ret = <<>>
             /\ last.op \in {"read_event", "get_event_by_index"} => last.ret = None

\* C14 witness: get_event_by_index(0) returned None on a registry on which
\* nothing had been persisted.
C14_Witness ==
    /\ last.op = "get_event_by_index"
    /\ last.index = 0
    /\ before = EmptyStorage
    /\ storage = EmptyStorage
    /\ last.ret = None

\* C15: read_event, list_events, get_event_count and get_event_by_index leave
\* the persisted counter and map as they were, so the same call made again
\* returns the same result.
C15_ReadOnlyNoSideEffects ==
    last.op \in ReadOnlyOps
        => /\ storage = before
           /\ last.op = "read_event" => last.ret = read_event(storage, last.event_id)
           /\ last.op = "list_events" => last.ret = list_events(storage)
           /\ last.op = "get_event_count" => last.ret = get_event_count(storage)
           /\ last.op = "get_event_by_index"
                 => last.ret = get_event_by_index(storage, last.index)

\* C15 witness: read_event returned a record and the storage, which holds
\* records, is as before the call.
C15_Witness ==
    /\ last.op = "read_event"
    /\ last.ret # None
    /\ storage = before
    /\ get_event_count(storage) = 3

\* C17: a mutating call touches at most one record: create_event leaves every
\* record stored before it as it was, update_event(id) adds and removes no
\* key and leaves every record with another key as it was, delete_event(id)
\* leaves every record with another key as it was.
C17_OneRecordTouched ==
    LET old == LoadEvents(before)
        new == LoadEvents(storage)
    IN  /\ last.op = "create_event"
              => \A k \in DOMAIN old : k \in DOMAIN new /\ new[k] = old[k]
        /\ last.op = "update_event"
              => /\ DOMAIN new = DOMAIN old
                 /\ \A k \in (DOMAIN old) \ {last.event_id} : new[k] = old[k]
        /\ last.op = "delete_event"
              => /\ (DOMAIN new) \ {last.event_id} = (DOMAIN old) \ {last.event_id}
                 /\ \A k \in (DOMAIN old) \ {last.event_id} : new[k] = old[k]

\* C17 witness: delete_event(2) removed record 2 of three and records 1 and 3
\* are as they were.
C17_Witness ==
    /\ last.op = "delete_event"
    /\ last.event_id = 2
    /\ DOMAIN LoadEvents(before) = {1, 2, 3}
    /\ DOMAIN LoadEvents(storage) = {1, 3}
    /\ LoadEvents(storage)[1] = LoadEvents(before)[1]
    /\ LoadEvents(storage)[3] = LoadEvents(before)[3]

\* C18: with the persisted counter at the largest value of its type,
\* create_event does not wrap around: the call fails and leaves the state as
\* it was, so no create_event returns id 0, stores a record under key 0,
\* overwrites a stored record or lowers the counter.
C18_NoWrapAtMax ==
    /\ (last.op = "create_event" /\ LoadCounter(before) = U32_MAX)
          => ~last.ok /\ storage = before
    /\ (last.op = "create_event" /\ last.ok)
          => last.ret # 0 /\ last.ret \notin DOMAIN LoadEvents(before)
    /\ 0 \notin DOMAIN LoadEvents(storage)
    /\ LoadCounter(storage) >= LoadCounter(before)

\* C19: get_event_by_index is defined for every index and its bounds check
\* never changes the answer: for an index k below the largest value it gives
\* what read_event(k + 1) gives, and for the largest index it gives None; it
\* never panics on index + 1.
C19_IndexIsReadOfNext ==
    \A k \in Indices :
        /\ get_event_by_index(storage, k) # Trap
        /\ IF k < U32_MAX
           THEN get_event_by_index(storage, k) = read_event(storage, k + 1)
           ELSE get_event_by_index(storage, k) = None

\* Both interleaved create_event calls have returned.
BothReturned == \A c \in Callers : frames[c].pc = "returned"

\* C16: when two create_event calls interleave at the level of their storage
\* reads and writes and both read the same counter value, both return the
\* same new id, the map gains one record for the two creates (one call's
\* record overwrites the other's) and the counter has advanced by only 1.
C16_StaleCounterCollides ==
    (BothReturned /\ frames[1].event_counter = frames[2].event_counter)
        => LET id == frames[1].event_counter
               old == LoadEvents(before)
               new == LoadEvents(storage)
           IN  /\ id = LoadCounter(before) + 1
               /\ LoadCounter(storage) = LoadCounter(before) + 1
               /\ DOMAIN new = (DOMAIN old) \cup {id}
               /\ \E c \in Callers :
                      new[id] = NewEvent(id, frames[c].args.name,
                                         frames[c].args.description,
                                         frames[c].args.start_date,
                                         frames[c].args.end_date)

\* C16 witness: two calls with different arguments on a registry holding one
\* record both returned id 2; the counter is 2 and the map holds records 1
\* and 2 only, record 2 being the second caller's.
C16_Witness ==
    /\ BothReturned
    /\ frames[1].args # frames[2].args
    /\ frames[1].event_counter = 2
    /\ frames[2].event_counter = 2
    /\ LoadCounter(before) = 1
    /\ LoadCounter(storage) = 2
    /\ DOMAIN LoadEvents(storage) = {1, 2}
    /\ LoadEvents(storage)[2].name = frames[2].args.name

====
